---- MODULE Spec2Model ----
(***************************************************************************)
(* Model of add_files_to_xcode.py: main() as a state machine over the      *)
(* script's position, its standard output, the ambient environment it      *)
(* reads (sys.platform, the working directory) and the module-level list   *)
(* NEW_FILES.                                                              *)
(*                                                                         *)
(* A printed line is a sequence of string pieces whose concatenation is    *)
(* the line: print("abc") is <<"abc">>, print(f"   - {file}") is           *)
(* <<"   - ", file>>.  Every line whose text starts with "   - " is split  *)
(* after that prefix, so the shape of a line is decided by its text.       *)
(* Non-ASCII characters of the source are written U+XXXX.                  *)
(***************************************************************************)
EXTENDS Integers, Sequences, FiniteSets, TLC

VARIABLES
    pc,         \* position in the script (lines 24-72)
    out,        \* standard output: the sequence of printed lines
    platform,   \* sys.platform (line 34)
    fs,         \* the paths that exist, relative to the working directory
    NEW_FILES,  \* the module-level list (lines 12-22)
    file_iter,  \* index of the running for loop's list iterator (lines 41, 53)
    reads,      \* the environment queries made so far, in order (lines 34, 47, 54)
    spawned,    \* the external processes started through subprocess (line 7)
    exit_code,  \* <<>> while the interpreter runs, <<c>> once it exited with c
    invoked     \* history: the environment and manifest when main() was called

vars == <<pc, out, platform, fs, NEW_FILES, file_iter, reads, spawned, exit_code, invoked>>

(* -------- the environment the script can be started in -------- *)

Darwin == "darwin"

\* values sys.platform takes on the common hosts
Platforms == {"darwin", "linux", "win32"}

ProjectDir == "MeTube.xcodeproj"

ManifestLiteral ==
    << "MeTube/Models/Persistence/VideoEntity.swift",
       "MeTube/Models/Persistence/ChannelEntity.swift",
       "MeTube/Models/Persistence/StatusEntity.swift",
       "MeTube/Repositories/VideoRepository.swift",
       "MeTube/Repositories/StatusRepository.swift",
       "MeTube/Repositories/ChannelRepository.swift",
       "MeTube/Services/Sync/HubSyncManager.swift",
       "MeTube/Services/Sync/StatusSyncManager.swift",
       "MeTube/Models/ModelConverters.swift" >>

Range(s) == {s[k] : k \in DOMAIN s}

\* every path the script can ask the filesystem about
Paths == {ProjectDir} \cup Range(ManifestLiteral)

(* -------- library calls -------- *)

\* os.path.exists(path): True when the path exists, False otherwise
exists(path) == path \in fs

\* mutant: os.stat semantics, a missing path raises
statRaises(path) == path \notin fs

\* whether os.path.exists(path) raises: never, a failing stat is reported
\* as False
existsRaises(path) == FALSE

\* the query log entry of one os.path.exists call
ExistsRead(path) == <<"os.path.exists", path>>

PlatformRead == <<"sys.platform">>

\* mutant: the list is walked backwards
IterNext_reversed(list, i) == list[Len(list) + 1 - i]

\* the next element of a list iterator at index i (for file in NEW_FILES)
IterNext(list, i) == list[i]

\* print(*pieces): one line appended to standard output, which accepts
\* every line
print(o, line) == Append(o, line)

RECURSIVE printAll(_, _)
printAll(o, lines) ==
    IF lines = <<>> THEN o ELSE printAll(print(o, Head(lines)), Tail(lines))

(* -------- the text -------- *)

Rule == "============================================================"

Present == "U+2713"
Absent == "U+2717"
ListMarker == "   - "

\* mutant: the two markers are swapped
Marker_swapped(e) == IF e THEN Absent ELSE Present

\* "✓" if os.path.exists(file) else "✗"
Marker(e) == IF e THEN Present ELSE Absent

ListLine(file) == <<ListMarker, file>>
ReportLine(mark, file) == <<"  ", mark, " ", file>>

BannerText ==
    << <<Rule>>,
       <<"MeTube Xcode Project File Adder">>,
       <<Rule>>,
       <<"">>,
       <<"This script needs to be run on a Mac with Xcode installed.">>,
       <<"It will add the new Swift files to MeTube.xcodeproj">>,
       <<"">> >>

ManualText ==
    << <<"U+26A0 U+FE0F  This script should be run on macOS with Xcode installed.">>,
       <<"">>,
       <<"Manual steps required:">>,
       <<"1. Open MeTube.xcodeproj in Xcode">>,
       <<"2. Right-click on each folder and select 'Add Files to MeTube...'">>,
       <<"3. Add these new files:">> >>

NotFoundText ==
    << <<"U+274C MeTube.xcodeproj not found in current directory">>,
       <<"Please run this script from the repository root">> >>

ReportHeaderText == <<"The following files will be added to the Xcode project:">>

FollowUpText ==
    << <<"">>,
       <<"To add these files to Xcode:">>,
       <<"1. Open MeTube.xcodeproj in Xcode">>,
       <<"2. In the Project Navigator, locate these folders:">>,
       <<ListMarker, "Models (add Persistence folder with entities)">>,
       <<ListMarker, "Services (add Sync folder with managers)">>,
       <<ListMarker, "Create 'Repositories' group if needed">>,
       <<"3. Drag and drop or use 'Add Files to MeTube...'">>,
       <<"4. Ensure files are added to the MeTube target">>,
       <<"">>,
       <<"Or use a tool like xcodegen to regenerate the project file">> >>

(* -------- control -------- *)

\* an uncaught exception: traceback, interpreter exit status 1
Raise ==
    /\ pc' = "raised"
    /\ exit_code' = <<1>>

\* main() returned to line 72, the last of the script: exit status 0
Return(state) ==
    /\ pc' = state
    /\ exit_code' = <<0>>

Init ==
    /\ pc = "start"
    /\ out = <<>>
    /\ platform \in Platforms
    /\ fs \in SUBSET Paths
    /\ NEW_FILES = ManifestLiteral
    /\ file_iter = 0
    /\ reads = <<>>
    /\ spawned = <<>>
    /\ exit_code = <<>>
    /\ invoked = [platform |-> platform, fs |-> fs, manifest |-> NEW_FILES]

\* if __name__ == "__main__": main()
Invoke ==
    /\ pc = "start"
    /\ pc' = "banner"
    /\ invoked' = [platform |-> platform, fs |-> fs, manifest |-> NEW_FILES]
    /\ UNCHANGED <<out, platform, fs, NEW_FILES, file_iter, reads, spawned, exit_code>>

\* mutant: the project check is hoisted above the platform branch
Banner_hoistedCheck ==
    /\ pc = "banner"
    /\ out' = printAll(out, BannerText)
    /\ reads' = Append(reads, ExistsRead(ProjectDir))
    /\ pc' = "platform_check"
    /\ UNCHANGED <<platform, fs, NEW_FILES, file_iter, spawned, exit_code, invoked>>

\* lines 25-31
Banner ==
    /\ pc = "banner"
    /\ out' = printAll(out, BannerText)
    /\ pc' = "platform_check"
    /\ UNCHANGED <<platform, fs, NEW_FILES, file_iter, reads, spawned, exit_code, invoked>>

\* mutant: the comparison is ==
NotMac_inverted(p) == p = Darwin

\* sys.platform != "darwin"
NotMac(p) == p # Darwin

\* line 34
PlatformCheck ==
    /\ pc = "platform_check"
    /\ reads' = Append(reads, PlatformRead)
    /\ pc' = IF NotMac(platform) THEN "manual_header" ELSE "project_check"
    /\ UNCHANGED <<out, platform, fs, NEW_FILES, file_iter, spawned, exit_code, invoked>>

\* lines 35-40, and the iterator of line 41
ManualHeader ==
    /\ pc = "manual_header"
    /\ out' = printAll(out, ManualText)
    /\ file_iter' = 1
    /\ pc' = "manual_loop"
    /\ UNCHANGED <<platform, fs, NEW_FILES, reads, spawned, exit_code, invoked>>

\* mutant: the loop consumes the list (while NEW_FILES: NEW_FILES.pop(0))
ManualLoop_pop ==
    /\ pc = "manual_loop"
    /\ IF NEW_FILES # <<>>
       THEN /\ out' = print(out, ListLine(Head(NEW_FILES)))
            /\ NEW_FILES' = Tail(NEW_FILES)
            /\ pc' = "manual_loop"
       ELSE /\ pc' = "manual_tail"
            /\ UNCHANGED <<out, NEW_FILES>>
    /\ UNCHANGED <<platform, fs, file_iter, reads, spawned, exit_code, invoked>>

\* lines 41-42: one pass of the loop, or its end
ManualLoop ==
    /\ pc = "manual_loop"
    /\ IF file_iter <= Len(NEW_FILES)
       THEN /\ out' = print(out, ListLine(IterNext(NEW_FILES, file_iter)))
            /\ file_iter' = file_iter + 1
            /\ pc' = "manual_loop"
       ELSE /\ pc' = "manual_tail"
            /\ UNCHANGED <<out, file_iter>>
    /\ UNCHANGED <<platform, fs, NEW_FILES, reads, spawned, exit_code, invoked>>

\* lines 43-44
ManualTail ==
    /\ pc = "manual_tail"
    /\ out' = print(out, <<"">>)
    /\ Return("instructions_only")
    /\ UNCHANGED <<platform, fs, NEW_FILES, file_iter, reads, spawned, invoked>>

\* line 47
ProjectCheck ==
    /\ pc = "project_check"
    /\ reads' = Append(reads, ExistsRead(ProjectDir))
    /\ LET e == exists(ProjectDir) IN
       IF existsRaises(ProjectDir)
       THEN Raise
       ELSE /\ pc' = IF ~e THEN "not_found" ELSE "report_header"
            /\ UNCHANGED exit_code
    /\ UNCHANGED <<out, platform, fs, NEW_FILES, file_iter, spawned, invoked>>

\* mutant: the return after the message is missing
NotFound_noReturn ==
    /\ pc = "not_found"
    /\ out' = printAll(out, NotFoundText)
    /\ pc' = "report_header"
    /\ UNCHANGED <<platform, fs, NEW_FILES, file_iter, reads, spawned, exit_code, invoked>>

\* mutant: the check is retried after the message
NotFound_retry ==
    /\ pc = "not_found"
    /\ out' = printAll(out, NotFoundText)
    /\ pc' = "project_check"
    /\ UNCHANGED <<platform, fs, NEW_FILES, file_iter, reads, spawned, exit_code, invoked>>

\* lines 48-50
NotFound ==
    /\ pc = "not_found"
    /\ out' = printAll(out, NotFoundText)
    /\ Return("missing_project")
    /\ UNCHANGED <<platform, fs, NEW_FILES, file_iter, reads, spawned, invoked>>

\* mutant: the follow-up instructions are printed ahead of the report
ReportHeader_followUpFirst ==
    /\ pc = "report_header"
    /\ out' = printAll(print(out, ReportHeaderText), FollowUpText)
    /\ file_iter' = 1
    /\ pc' = "report_loop"
    /\ UNCHANGED <<platform, fs, NEW_FILES, reads, spawned, exit_code, invoked>>

\* line 52, and the iterator of line 53
ReportHeader ==
    /\ pc = "report_header"
    /\ out' = print(out, ReportHeaderText)
    /\ file_iter' = 1
    /\ pc' = "report_loop"
    /\ UNCHANGED <<platform, fs, NEW_FILES, reads, spawned, exit_code, invoked>>

\* mutant: the manifest is a set, walked in whatever order the hash gives
ReportLoop_setOrder ==
    /\ pc = "report_loop"
    /\ IF file_iter <= Len(NEW_FILES)
       THEN \E file \in Range(NEW_FILES) \ {reads[j][2] : j \in 3..Len(reads)} :
                /\ reads' = Append(reads, ExistsRead(file))
                /\ out' = print(out, ReportLine(Marker(exists(file)), file))
                /\ file_iter' = file_iter + 1
                /\ pc' = "report_loop"
       ELSE /\ pc' = "follow_up"
            /\ UNCHANGED <<out, file_iter, reads>>
    /\ UNCHANGED <<platform, fs, NEW_FILES, spawned, exit_code, invoked>>

\* lines 53-55: one pass of the loop, or its end
ReportLoop ==
    /\ pc = "report_loop"
    /\ IF file_iter <= Len(NEW_FILES)
       THEN LET file == IterNext(NEW_FILES, file_iter)
                e == exists(file)
            IN  /\ reads' = Append(reads, ExistsRead(file))
                /\ IF existsRaises(file)
                   THEN /\ Raise
                        /\ UNCHANGED <<out, file_iter>>
                   ELSE /\ out' = print(out, ReportLine(Marker(e), file))
                        /\ file_iter' = file_iter + 1
                        /\ pc' = "report_loop"
                        /\ UNCHANGED exit_code
       ELSE /\ pc' = "follow_up"
            /\ UNCHANGED <<out, file_iter, reads, exit_code>>
    /\ UNCHANGED <<platform, fs, NEW_FILES, spawned, invoked>>

\* lines 56-69
FollowUp ==
    /\ pc = "follow_up"
    /\ out' = printAll(out, FollowUpText)
    /\ Return("report_emitted")
    /\ UNCHANGED <<platform, fs, NEW_FILES, file_iter, reads, spawned, invoked>>

Next ==
    \/ Invoke
    \/ Banner
    \/ PlatformCheck
    \/ ManualHeader
    \/ ManualLoop
    \/ ManualTail
    \/ ProjectCheck
    \/ NotFound
    \/ ReportHeader
    \/ ReportLoop
    \/ FollowUp

Spec == Init /\ [][Next]_vars

\* the interpreter runs the script's statements one after another until it exits
FairSpec == Spec /\ WF_vars(Next)

(* ==================== properties ==================== *)

Terminal == {"instructions_only", "missing_project", "report_emitted"}

\* the run is over: main() returned, or an exception ended it
Done == pc \in Terminal \cup {"raised"}

IsListLine(l) == Len(l) = 2 /\ l[1] = ListMarker

IsReportLine(l) == Len(l) = 4 /\ l[1] = "  " /\ l[2] \in {Present, Absent} /\ l[3] = " "

ListLinesOf(o) == SelectSeq(o, IsListLine)

ReportLinesOf(o) == SelectSeq(o, IsReportLine)

IsExistsRead(r) == Len(r) = 2 /\ r[1] = "os.path.exists"

IsFileRead(r) == IsExistsRead(r) /\ r[2] \in Range(invoked.manifest)

\* the lines only the follow-up instructions print
FollowUpOnly == Range(FollowUpText) \ (Range(BannerText) \cup Range(ManualText))

IsFollowUpLine(l) == l \in FollowUpOnly

IsPrefix(s, t) == Len(s) <= Len(t) /\ SubSeq(t, 1, Len(s)) = s

Count(s, x) == Cardinality({j \in DOMAIN s : s[j] = x})

\* C1: on darwin with MeTube.xcodeproj present, a finished run has printed
\* exactly one report line per manifest entry, and the marker of each line is
\* the present marker iff the path existed when main() was invoked.
C1_ReportMatchesFilesystem ==
    (Done /\ invoked.platform = Darwin /\ ProjectDir \in invoked.fs) =>
        LET r == ReportLinesOf(out)
            m == invoked.manifest
        IN  /\ Len(r) = Len(m)
            /\ \A k \in DOMAIN m :
                   Cardinality({j \in DOMAIN r : r[j][4] = m[k]}) = 1
            /\ \A j \in DOMAIN r :
                   /\ (r[j][2] = Present) <=> (r[j][4] \in invoked.fs)
                   /\ (r[j][2] = Absent) <=> (r[j][4] \notin invoked.fs)

C1_Witness ==
    /\ pc = "report_emitted"
    /\ invoked.platform = Darwin
    /\ ProjectDir \in invoked.fs
    /\ \E f, g \in Range(invoked.manifest) : f \in invoked.fs /\ g \notin invoked.fs
    /\ Len(ReportLinesOf(out)) = Len(invoked.manifest)

\* C2: off darwin, no os.path.exists call is ever made (neither for the
\* project directory nor for a manifest path), and a finished run has printed
\* every manifest path behind the listing marker.
C2_InstructionsOnlyNoChecks ==
    (invoked.platform # Darwin) =>
        /\ \A j \in DOMAIN reads : ~IsExistsRead(reads[j])
        /\ Done => /\ pc = "instructions_only"
                   /\ \A k \in DOMAIN invoked.manifest :
                          ListLine(invoked.manifest[k]) \in Range(out)

C2_Witness ==
    /\ pc = "instructions_only"
    /\ invoked.platform = "linux"
    /\ invoked.fs = Paths
    /\ reads = <<PlatformRead>>
    /\ Len(ListLinesOf(out)) > 0

\* C3: on darwin without MeTube.xcodeproj, no manifest path is ever checked
\* and no report line is ever printed, and a finished run has printed the
\* not-found message and ended in missing-project.
C3_MissingProject ==
    (invoked.platform = Darwin /\ ProjectDir \notin invoked.fs) =>
        /\ \A j \in DOMAIN reads : ~IsFileRead(reads[j])
        /\ ReportLinesOf(out) = <<>>
        /\ Done => /\ pc = "missing_project"
                   /\ NotFoundText[1] \in Range(out)

C3_Witness ==
    /\ pc = "missing_project"
    /\ invoked.platform = Darwin
    /\ invoked.fs = Range(invoked.manifest)
    /\ NotFoundText[1] \in Range(out)

C6_ManualOrder ==
    (Done /\ invoked.platform # Darwin) =>
        LET l == ListLinesOf(out) IN
            [k \in DOMAIN l |-> l[k][2]] = invoked.manifest

C6_Witness ==
    /\ pc = "instructions_only"
    /\ invoked.platform = "win32"
    /\ Len(ListLinesOf(out)) = Len(ManifestLiteral)

\* the output the environment and manifest of an invocation determine
ExpectedOut(inv) ==
    LET m == inv.manifest IN
    BannerText \o
    (IF inv.platform # Darwin
     THEN ManualText \o [k \in DOMAIN m |-> <<ListMarker, m[k]>>] \o << <<"">> >>
     ELSE IF ProjectDir \notin inv.fs
     THEN NotFoundText
     ELSE <<ReportHeaderText>>
          \o [k \in DOMAIN m |->
                 <<"  ", IF m[k] \in inv.fs THEN Present ELSE Absent, " ", m[k]>>]
          \o FollowUpText)

\* the terminal state the two conditions of an invocation select
ExpectedEnd(inv) ==
    IF inv.platform # Darwin THEN "instructions_only"
    ELSE IF ProjectDir \notin inv.fs THEN "missing_project"
    ELSE "report_emitted"

\* C7: the output is a function of the inputs: at every point of a run the
\* lines printed so far are the first lines of the text that the manifest,
\* the platform identifier and the existence of the project directory and of
\* the manifest paths determine, and a finished run has printed all of that
\* text and is in the terminal state they determine; so two runs that agree
\* on these inputs print the same lines and end in the same state.
C7_Deterministic ==
    /\ IsPrefix(out, ExpectedOut(invoked))
    /\ Done => (out = ExpectedOut(invoked) /\ pc = ExpectedEnd(invoked))

C7_Witness ==
    /\ pc = "report_emitted"
    /\ invoked.fs = Paths
    /\ out = ExpectedOut(invoked)
    /\ Len(out) = Len(BannerText) + 1 + Len(invoked.manifest) + Len(FollowUpText)

PcRank ==
    [ start |-> 0, banner |-> 1, platform_check |-> 2,
      manual_header |-> 3, manual_loop |-> 4, manual_tail |-> 5,
      project_check |-> 3, not_found |-> 4,
      report_header |-> 4, report_loop |-> 5, follow_up |-> 6,
      instructions_only |-> 7, missing_project |-> 7, report_emitted |-> 7,
      raised |-> 7 ]

\* a step moves strictly forward: to a later position, or to the next entry
\* of the running loop
Forward ==
    \/ PcRank[pc'] > PcRank[pc]
    \/ PcRank[pc'] = PcRank[pc] /\ file_iter' > file_iter

\* C8: a finished run is in the one terminal state that platform match and
\* project-directory presence select, a terminal state is never left, and no
\* step goes back to a position the run has been at.
C8_ThreeTerminalStates ==
    /\ [](Done => pc = ExpectedEnd(invoked))
    /\ [](pc \in DOMAIN PcRank)
    /\ [][~Done /\ Forward]_vars

C8_Witness ==
    /\ pc = "missing_project"
    /\ pc = ExpectedEnd(invoked)
    /\ invoked.fs = {}

\* C9: every run reaches a terminal state, and on the way it reads the
\* platform at most once, checks the project directory at most once and each
\* manifest path at most once, after printing the banner.
C9_Terminates ==
    /\ <>(pc \in Terminal)
    /\ [](/\ Count(reads, PlatformRead) <= 1
          /\ \A p \in Paths : Count(reads, ExistsRead(p)) <= 1
          /\ \A j \in DOMAIN reads :
                 reads[j] = PlatformRead \/ (IsExistsRead(reads[j]) /\ reads[j][2] \in Paths)
          /\ reads # <<>> => IsPrefix(BannerText, out))

C9_Witness ==
    /\ pc = "report_emitted"
    /\ Count(reads, PlatformRead) = 1
    /\ \A p \in Paths : Count(reads, ExistsRead(p)) = 1

\* C10: report lines come in manifest order; manifest paths are checked once
\* each, in order, only after the project check found the directory; every
\* follow-up line comes after every report line; and the follow-up is never
\* printed in the instructions-only or missing-project branch.
C10_ReportOrder ==
    LET m == invoked.manifest
        r == ReportLinesOf(out)
        f == SelectSeq(reads, IsFileRead)
    IN  /\ \A j \in DOMAIN reads :
               IsFileRead(reads[j]) =>
                   /\ ProjectDir \in invoked.fs
                   /\ \E k \in 1..(j - 1) : reads[k] = ExistsRead(ProjectDir)
        /\ \A j, k \in DOMAIN out :
               (IsReportLine(out[j]) /\ IsFollowUpLine(out[k])) => j < k
        /\ pc \in {"instructions_only", "missing_project"} =>
               \A j \in DOMAIN out : ~IsFollowUpLine(out[j])
        /\ pc = "report_emitted" =>
               /\ [k \in DOMAIN r |-> r[k][4]] = m
               /\ [k \in DOMAIN f |-> f[k][2]] = m
               /\ SelectSeq(out, IsFollowUpLine) = SelectSeq(FollowUpText, IsFollowUpLine)

C10_Witness ==
    /\ pc = "report_emitted"
    /\ [k \in DOMAIN ReportLinesOf(out) |-> ReportLinesOf(out)[k][4]] = invoked.manifest
    /\ IsFollowUpLine(out[Len(out)])
    /\ invoked.fs # Paths

====
